---- MODULE Spec2Model ----
(***************************************************************************)
(* Model of crates/editor/src/inlay_hint_cache.rs: the versioned per-      *)
(* excerpt inlay hint cache, its refresh scheduler (spawn_hints_update),   *)
(* the fetch/diff/commit tasks (new_update_task,                           *)
(* new_excerpt_hints_update_result) and the settings resync                *)
(* (update_settings, new_allowed_hint_kinds_splice).                       *)
(***************************************************************************)
EXTENDS Integers, Sequences, FiniteSets, Bags, TLC

(***************************************************************************)
(* Bounds of the model.                                                    *)
(***************************************************************************)
NumExcerpts == 2
MaxTasks == 2
MaxPending == 2
MaxVersion == 3
MaxDispatchVersion == 1
MaxInlayId == 3
MaxNewHints == 2
MaxBufferVersion == 1

Excerpts == 1..NumExcerpts

(***************************************************************************)
(* Every excerpt spans the positions 1..RangeEnd of its buffer; the hint   *)
(* source may also answer with a position outside of the span.             *)
(***************************************************************************)
RangeEnd == 2

Kinds == {"Type", "Parameter", "Other"}

Strategies == {"All", "OnConflict", "None"}

\* InlayHint values the hint source can return: two hints that differ only in
\* their label at one position, a parameter hint, and a hint past the span.
HintA == [ position |-> 1, kind |-> "Type", label |-> "a" ]
HintB == [ position |-> 1, kind |-> "Type", label |-> "b" ]
HintP == [ position |-> 2, kind |-> "Parameter", label |-> "a" ]
HintOut == [ position |-> RangeEnd + 1, kind |-> "Other", label |-> "a" ]

SourceHints == { HintA, HintB, HintP, HintOut }

RECURSIVE SeqsUpTo(_, _)
SeqsUpTo(S, n) ==
    IF n = 0 THEN { <<>> }
    ELSE LET shorter == SeqsUpTo(S, n - 1)
         IN  shorter \cup { Append(s, x) : s \in shorter, x \in S }

\* The answers of the hint source: Ok(Some(new_hints)).
FetchResults == SeqsUpTo(SourceHints, MaxNewHints)

Range(s) == { s[i] : i \in 1..Len(s) }

(***************************************************************************)
(* The state.                                                              *)
(***************************************************************************)
VARIABLES
    hints,               \* InlayHintCache.hints: excerpt -> CachedExcerptHints
    allowed_hint_kinds,  \* InlayHintCache.allowed_hint_kinds
    version,             \* InlayHintCache.version
    update_tasks,        \* InlayHintCache.update_tasks: excerpt -> task bookkeeping
    next_inlay_id,       \* Editor.next_inlay_id
    visible,             \* the inlays of the display map (visible_inlay_hints)
    buffer_version,      \* the version of the buffer behind the excerpts
    pending,             \* deferred halves of spawn_hints_update, in spawn order
    tasks,               \* the update tasks in flight, a bag
    settings,            \* the settings last handed to update_settings
    last                 \* the operation that produced this state

vars == << hints, allowed_hint_kinds, version, update_tasks, next_inlay_id,
           visible, buffer_version, pending, tasks, settings, last >>


(***************************************************************************)
(* Pure functions.                                                         *)
(***************************************************************************)

\* allowed_hint_types: the kinds the settings show (None is "Other").
allowed_hint_types(inlay_hint_settings) ==
    (IF inlay_hint_settings.show_type_hints THEN {"Type"} ELSE {})
    \cup (IF inlay_hint_settings.show_parameter_hints THEN {"Parameter"} ELSE {})
    \cup (IF inlay_hint_settings.show_other_hints THEN {"Other"} ELSE {})

\* ExcerptQuery::contains_position
contains_position(position) ==
    1 <= position /\ position <= RangeEnd

\* A match that takes every strategy for an invalidating one.
AlwaysInvalidating(invalidate) == TRUE

\* InvalidationStrategy::All | InvalidationStrategy::OnConflict
IsInvalidating(invalidate) ==
    invalidate \in {"All", "OnConflict"}

\* Global::changed_since, for a buffer edited by one replica.
changed_since(a, b) == a > b

\* slice::binary_search_by over the cached hints, probing by position: the index
\* of a hint at `position` (0 when there is none), found as the standard library
\* finds it.
RECURSIVE binary_search_by(_, _, _, _)
binary_search_by(cached, position, left, right) ==
    IF left >= right THEN 0
    ELSE LET mid == left + ((right - left) \div 2)
             probe == cached[mid + 1].hint.position
         IN  IF probe < position THEN binary_search_by(cached, position, mid + 1, right)
             ELSE IF probe > position THEN binary_search_by(cached, position, left, mid)
             ELSE mid + 1

\* Vec::sort_by on the hints' positions: a stable sort.
RECURSIVE InsertByPosition(_, _)
InsertByPosition(sorted, entry) ==
    IF sorted = <<>> THEN << entry >>
    ELSE IF sorted[Len(sorted)].hint.position <= entry.hint.position
         THEN Append(sorted, entry)
         ELSE Append(InsertByPosition(SubSeq(sorted, 1, Len(sorted) - 1), entry),
                     sorted[Len(sorted)])

RECURSIVE sort_by(_)
sort_by(entries) ==
    IF entries = <<>> THEN <<>>
    ELSE InsertByPosition(sort_by(SubSeq(entries, 1, Len(entries) - 1)),
                          entries[Len(entries)])

\* Whether a fetched hint is missing from the cached hints (lines 467-486);
\* has_cache is FALSE for cached_excerpt_hints = None.
missing_from_cache(has_cache, cached, new_hint) ==
    IF ~has_cache THEN TRUE
    ELSE LET ix == binary_search_by(cached, new_hint.position, 0, Len(cached))
         IN  IF ix = 0 THEN TRUE ELSE cached[ix].hint # new_hint

\* The ids of the cached hints a fetch found again, value-equal (line 476).
excerpt_hints_to_persist(has_cache, cached, new_excerpt_hints) ==
    IF ~has_cache THEN {}
    ELSE { cached[ix].id :
             ix \in { i \in 1..Len(cached) :
                        \E n \in 1..Len(new_excerpt_hints) :
                            /\ contains_position(new_excerpt_hints[n].position)
                            /\ binary_search_by(cached, new_excerpt_hints[n].position,
                                                0, Len(cached)) = i
                            /\ cached[i].hint = new_excerpt_hints[n] } }

\* new_excerpt_hints_update_result: the ExcerptHintsUpdate of a fetch, with
\* is_some = FALSE standing for None.
new_excerpt_hints_update_result(excerpt_id, invalidate, new_excerpt_hints, has_cache, cached, visible_hints) ==
    LET in_range(h) == contains_position(h.position)
        is_missing(h) == missing_from_cache(has_cache, cached, h)
        add_to_cache == SelectSeq(SelectSeq(new_excerpt_hints, in_range), is_missing)
        persist == excerpt_hints_to_persist(has_cache, cached, new_excerpt_hints)
        remove_from_visible ==
            IF IsInvalidating(invalidate)
            THEN { v.id : v \in { w \in visible_hints :
                                    /\ w.excerpt_id = excerpt_id
                                    /\ contains_position(w.position)
                                    /\ w.id \notin persist } }
            ELSE {}
        remove_from_cache ==
            IF IsInvalidating(invalidate) /\ has_cache
            THEN { cached[i].id : i \in { j \in 1..Len(cached) : cached[j].id \notin persist } }
            ELSE {}
    IN  [ is_some |-> ~(remove_from_visible = {} /\ remove_from_cache = {}
                        /\ add_to_cache = <<>>),
          remove_from_visible |-> remove_from_visible,
          remove_from_cache |-> remove_from_cache,
          add_to_cache |-> add_to_cache ]

\* The walk of one excerpt's shown hints against its cached hints in
\* new_allowed_hint_kinds_splice (lines 268-319): what stays in
\* shown_excerpt_hints_to_remove and what goes to to_insert.
RECURSIVE MergeWalk(_, _, _, _, _, _, _, _, _)
MergeWalk(excerpt_id, shown, cached, old_kinds, new_kinds, si, ci, to_remove, to_insert) ==
    LET newly_allowed(h) == h.kind \notin old_kinds /\ h.kind \in new_kinds
        inlay(c) == [id |-> c.id, excerpt_id |-> excerpt_id, position |-> c.hint.position]
    IN  IF si > Len(shown)
        THEN [ to_remove |-> to_remove,
               to_insert |-> to_insert \cup
                   { inlay(cached[j]) :
                       j \in { k \in ci..Len(cached) : newly_allowed(cached[k].hint) } } ]
        ELSE IF ci > Len(cached)
        THEN MergeWalk(excerpt_id, shown, cached, old_kinds, new_kinds, si + 1, ci,
                       to_remove \cup {shown[si].id}, to_insert)
        ELSE IF cached[ci].id = shown[si].id
        THEN MergeWalk(excerpt_id, shown, cached, old_kinds, new_kinds, si + 1, ci + 1,
                       IF cached[ci].hint.kind \notin new_kinds
                       THEN to_remove \cup {shown[si].id} ELSE to_remove,
                       to_insert)
        ELSE IF cached[ci].hint.position <= shown[si].position
        THEN MergeWalk(excerpt_id, shown, cached, old_kinds, new_kinds, si, ci + 1,
                       to_remove,
                       IF newly_allowed(cached[ci].hint)
                       THEN to_insert \cup {inlay(cached[ci])} ELSE to_insert)
        ELSE MergeWalk(excerpt_id, shown, cached, old_kinds, new_kinds, si + 1, ci,
                       to_remove \cup {shown[si].id}, to_insert)

(***************************************************************************)
(* Helpers over the state.                                                 *)
(***************************************************************************)

RECURSIVE Perms(_)
Perms(S) ==
    IF S = {} THEN { <<>> }
    ELSE UNION { { << x >> \o p : p \in Perms(S \ {x}) } : x \in S }

\* The orders in which the display map can hold a set of inlays: by position,
\* inlays at one position in any order.
SortedOrders(inlays) ==
    { p \in Perms(inlays) :
        \A i \in 1..Len(p) : \A j \in i..Len(p) : p[i].position <= p[j].position }

SettingsChoices ==
    [ enabled : BOOLEAN, show_type_hints : BOOLEAN,
      show_parameter_hints : BOOLEAN, show_other_hints : BOOLEAN ]

SettingsOn ==
    [ enabled |-> TRUE, show_type_hints |-> TRUE, show_parameter_hints |-> TRUE,
      show_other_hints |-> TRUE ]
SettingsNoParameter == [ SettingsOn EXCEPT !.show_parameter_hints = FALSE ]
SettingsOff == [ SettingsOn EXCEPT !.enabled = FALSE ]

NoUpdate ==
    [ is_some |-> FALSE, remove_from_visible |-> {}, remove_from_cache |-> {},
      add_to_cache |-> <<>> ]

\* What `last` records of an operation.
Op(name) ==
    [ op |-> name, excerpts |-> {}, invalidate |-> "None", proceed |-> {},
      resolvable |-> {}, applied |-> FALSE, before_visible |-> {}, before_parameter_hints |-> FALSE ]

\* One task of the bag becomes another, or leaves.
ReplaceTask(ts, t, changed) == (ts (-) SetToBag({t})) (+) SetToBag({changed})

EndTask(ts, t) == ts (-) SetToBag({t})

\* HashMap::insert / HashMap::retain on a map held as a function.
MapInsert(map, key, value) ==
    [ k \in DOMAIN map \cup {key} |-> IF k = key THEN value ELSE map[k] ]

\* A retain that drops nothing.
RetainAll(map, keys) == map

MapRetain(map, keys) ==
    [ k \in DOMAIN map \cap keys |-> map[k] ]

EmptyMap == [ k \in {} |-> 0 ]

\* The visible-set sink: Editor::splice_inlay_hints applies a splice at once.
ApplySplice(inlays, to_remove, to_insert) ==
    { v \in inlays : v.id \notin to_remove } \cup to_insert

\* Dropping the bookkeeping of the excerpts `dropped` does not cancel their
\* tasks: superseded tasks run to completion.
AfterDrop(ts, dropped) == ts

\* The hints a task reads through its clone of the excerpt's cache entry.
CachedHintsOf(t) ==
    IF t.cached = "live" THEN hints[t.excerpt_id].hints
    ELSE IF t.cached = "orphan" THEN t.orphan_hints
    ELSE <<>>

(***************************************************************************)
(* InlayHintCache::new                                                     *)
(***************************************************************************)
Init ==
    /\ settings \in SettingsChoices
    /\ allowed_hint_kinds = allowed_hint_types(settings)
    /\ hints = EmptyMap
    /\ update_tasks = EmptyMap
    /\ version = 0
    /\ next_inlay_id = 0
    /\ visible = {}
    /\ buffer_version = 0
    /\ pending = <<>>
    /\ tasks = EmptyBag
    /\ last = Op("new")

(***************************************************************************)
(* spawn_hints_update, up to cx.spawn (lines 134-168).                     *)
(***************************************************************************)

\* A closure that lets an excerpt through whenever its task is of this version.
ProceedsOnEqualVersion(tasks_map, excerpt_id, cache_version, invalidate_cache) ==
    IF excerpt_id \in DOMAIN tasks_map
    THEN tasks_map[excerpt_id].version <= cache_version
    ELSE TRUE

\* The retain closure of lines 144-153 and 159-168.
ProceedsPastTask(tasks_map, excerpt_id, cache_version, invalidate_cache) ==
    IF excerpt_id \in DOMAIN tasks_map
    THEN IF tasks_map[excerpt_id].version < cache_version THEN TRUE
         ELSE IF tasks_map[excerpt_id].version = cache_version THEN invalidate_cache
         ELSE FALSE
    ELSE TRUE

\* Lines 134-168: the bookkeeping and the excerpts left by the four retains.
ScheduledQuery(excerpts_to_query, invalidate) ==
    LET invalidate_cache == IsInvalidating(invalidate)
        cache_version == version
        tasks1 == IF invalidate_cache
                  THEN MapRetain(update_tasks, excerpts_to_query) ELSE update_tasks
        query1 == { e \in excerpts_to_query :
                      ProceedsPastTask(tasks1, e, cache_version, invalidate_cache) }
        tasks2 == IF invalidate_cache THEN MapRetain(tasks1, query1) ELSE tasks1
        query2 == { e \in query1 :
                      ProceedsPastTask(tasks2, e, cache_version, invalidate_cache) }
    IN  [ update_tasks |-> tasks2, excerpts_to_query |-> query2,
          invalidate |-> invalidate, cache_version |-> cache_version ]

spawn_hints_update(excerpts_to_query, invalidate) ==
    LET scheduled == ScheduledQuery(excerpts_to_query, invalidate)
    IN  /\ Len(pending) < MaxPending
        /\ version <= MaxDispatchVersion
        /\ update_tasks' = scheduled.update_tasks
        /\ tasks' = AfterDrop(tasks, DOMAIN update_tasks \ DOMAIN scheduled.update_tasks)
        /\ pending' = Append(pending,
                             [ excerpts_to_query |-> scheduled.excerpts_to_query,
                               invalidate |-> invalidate,
                               cache_version |-> scheduled.cache_version ])
        /\ last' = [ Op("spawn_hints_update") EXCEPT
                        !.excerpts = excerpts_to_query,
                        !.invalidate = invalidate,
                        !.proceed = scheduled.excerpts_to_query ]
        /\ UNCHANGED << hints, allowed_hint_kinds, version, next_inlay_id, visible,
                        buffer_version, settings >>

(***************************************************************************)
(* spawn_hints_update, the spawned half (lines 170-233).                   *)
(***************************************************************************)

\* A check that takes no cache entry for current.
NeverCurrent(excerpt_id, invalidate) == FALSE

\* The two `return`s of lines 203-215, which leave the whole closure.
CacheIsCurrent(excerpt_id, invalidate) ==
    /\ excerpt_id \in DOMAIN hints
    /\ \/ changed_since(hints[excerpt_id].buffer_version, buffer_version)
       \/ /\ ~changed_since(buffer_version, hints[excerpt_id].buffer_version)
          /\ invalidate # "All"

\* The excerpts the loop of line 175 starts a task for, walking them in `order`.
RECURSIVE ExcerptsToFetch(_, _, _, _)
ExcerptsToFetch(order, i, resolvable, invalidate) ==
    IF i > Len(order) THEN {}
    ELSE IF order[i] \notin resolvable
    THEN ExcerptsToFetch(order, i + 1, resolvable, invalidate)
    ELSE IF CacheIsCurrent(order[i], invalidate) THEN {}
    ELSE {order[i]} \cup ExcerptsToFetch(order, i + 1, resolvable, invalidate)

\* new_update_task up to the fetch (lines 346-358): the task and what it holds.
NewTask(query, excerpt_id) ==
    [ stage |-> "fetch", excerpt_id |-> excerpt_id,
      cache_version |-> query.cache_version, invalidate |-> query.invalidate,
      buffer_version |-> buffer_version,
      visible_hints |-> { v \in visible : v.excerpt_id = excerpt_id },
      cached |-> IF excerpt_id \in DOMAIN hints THEN "live" ELSE "none",
      orphan_hints |-> <<>>, fetched |-> {},
      new_update |-> NoUpdate ]

StartTasks(ts, query, to_fetch) ==
    ts (+) SetToBag({ NewTask(query, e) : e \in to_fetch })

\* Bookkeeping that records the version after the request's.
RecordAhead(map, cache_version, to_fetch) ==
    [ e \in DOMAIN map \cup to_fetch |->
        IF e \in to_fetch THEN [ version |-> cache_version + 1 ] ELSE map[e] ]

RECURSIVE RecordTasks(_, _, _)
RecordTasks(map, cache_version, to_fetch) ==
    IF to_fetch = {} THEN map
    ELSE LET e == CHOOSE x \in to_fetch : TRUE
         IN  RecordTasks(MapInsert(map, e, [ version |-> cache_version ]),
                         cache_version, to_fetch \ {e})

RunSpawned(max_tasks) ==
    /\ pending # <<>>
    /\ LET query == Head(pending)
       IN  \E order \in Perms(query.excerpts_to_query) :
           \E resolvable \in SUBSET query.excerpts_to_query :
              LET to_fetch == ExcerptsToFetch(order, 1, resolvable, query.invalidate)
              IN  /\ BagCardinality(tasks) + Cardinality(to_fetch) <= max_tasks
                  /\ tasks' = StartTasks(AfterDrop(tasks, to_fetch), query, to_fetch)
                  /\ update_tasks' = RecordTasks(update_tasks, query.cache_version,
                                                 to_fetch)
                  /\ last' = [ Op("RunSpawned") EXCEPT
                                  !.excerpts = query.excerpts_to_query,
                                  !.invalidate = query.invalidate,
                                  !.resolvable = resolvable,
                                  !.proceed = to_fetch ]
    /\ pending' = Tail(pending)
    /\ UNCHANGED << hints, allowed_hint_kinds, version, next_inlay_id, visible,
                    buffer_version, settings >>

(***************************************************************************)
(* new_update_task: the fetch, the diff and the commit (lines 357-450).    *)
(***************************************************************************)

\* Err(e) or Ok(None) from hints_fetch_task (lines 443-448): nothing is done.
FetchFails(t) ==
    /\ t.stage = "fetch"
    /\ tasks' = EndTask(tasks, t)
    /\ last' = [ Op("FetchFails") EXCEPT !.excerpts = {t.excerpt_id},
                                          !.invalidate = t.invalidate ]
    /\ UNCHANGED << hints, allowed_hint_kinds, version, update_tasks, next_inlay_id,
                    visible, buffer_version, pending, settings >>

\* The fetched hints that lie in the queried span, which are all the diff reads.
FetchedInRange(new_hints) ==
    { h \in Range(new_hints) : contains_position(h.position) }

\* Ok(Some(new_hints)) and the diff on the background executor (lines 359-372),
\* which reads the excerpt's cached hints as they are when it runs.
FetchSucceeds(t, new_hints) ==
    /\ t.stage = "fetch"
    /\ LET new_update ==
               new_excerpt_hints_update_result(
                   t.excerpt_id, t.invalidate, new_hints, t.cached # "none",
                   CachedHintsOf(t), t.visible_hints)
           diffed == [ t EXCEPT !.stage = "commit",
                                !.fetched = FetchedInRange(new_hints),
                                !.new_update = new_update ]
       IN  /\ tasks' = IF new_update.is_some
                       THEN ReplaceTask(tasks, t, diffed) ELSE EndTask(tasks, t)
           /\ last' = [ Op("FetchSucceeds") EXCEPT !.excerpts = {t.excerpt_id},
                                                    !.invalidate = t.invalidate,
                                                    !.applied = new_update.is_some ]
    /\ UNCHANGED << hints, allowed_hint_kinds, version, update_tasks, next_inlay_id,
                    visible, buffer_version, pending, settings >>

\* A guard that lets every update through.
NeverDiscards(update_version, cached_version) == FALSE

\* The version guard of lines 388-393: the update is dropped.
VersionGuardDiscards(update_version, cached_version) ==
    update_version < cached_version

\* The entry of line 379-386: the cached one, or a new empty one.
EntryOrInsert(t) ==
    IF t.excerpt_id \in DOMAIN hints THEN hints[t.excerpt_id]
    ELSE [ version |-> t.cache_version, buffer_version |-> t.buffer_version,
           hints |-> <<>> ]

\* New hints numbered from 0 at every commit.
RestartedIds(add_to_cache) ==
    [ i \in 1..Len(add_to_cache) |-> [ id |-> i - 1, hint |-> add_to_cache[i] ] ]

\* Lines 406-423: the new hints with their ids, post_inc(next_inlay_id) each.
NewCachedHints(add_to_cache) ==
    [ i \in 1..Len(add_to_cache) |->
        [ id |-> next_inlay_id + i - 1, hint |-> add_to_cache[i] ] ]

\* The hints after the update, left in the order they were pushed.
UnsortedCommittedHints(entry, new_update) ==
    LET kept(c) == c.id \notin new_update.remove_from_cache
    IN  SelectSeq(entry.hints, kept) \o NewCachedHints(new_update.add_to_cache)

\* Lines 394-429: the excerpt's hints after the update.
CommittedHints(entry, new_update) ==
    LET kept(c) == c.id \notin new_update.remove_from_cache
    IN  sort_by(SelectSeq(entry.hints, kept) \o NewCachedHints(new_update.add_to_cache))

\* Every new hint as an inlay to insert, whatever its kind.
SpliceEveryKind(excerpt_id, new_update) ==
    LET added == NewCachedHints(new_update.add_to_cache)
    IN  { [ id |-> added[i].id, excerpt_id |-> excerpt_id,
            position |-> added[i].hint.position ] : i \in 1..Len(added) }

\* Lines 410-420: the new hints of an allowed kind, as inlays to insert.
SpliceToInsert(excerpt_id, new_update) ==
    LET added == NewCachedHints(new_update.add_to_cache)
    IN  { [ id |-> added[i].id, excerpt_id |-> excerpt_id,
            position |-> added[i].hint.position ] :
            i \in { j \in 1..Len(added) : added[j].hint.kind \in allowed_hint_kinds } }

\* A version that is left as it was.
SameVersion(v) == v

\* self.version += 1 (lines 120, 339) and inlay_hint_cache.version += 1 (399).
NextVersion(v) == v + 1

\* The editor.update closure of lines 375-439.
Commit(t) ==
    /\ t.stage = "commit"
    /\ LET entry == EntryOrInsert(t)
       IN  IF VersionGuardDiscards(t.cache_version, entry.version)
           THEN /\ hints' = MapInsert(hints, t.excerpt_id, entry)
                /\ last' = [ Op("Commit") EXCEPT !.excerpts = {t.excerpt_id},
                                                  !.invalidate = t.invalidate,
                                                  !.applied = FALSE ]
                /\ UNCHANGED << version, next_inlay_id, visible >>
           ELSE /\ version < MaxVersion
                /\ next_inlay_id + Len(t.new_update.add_to_cache) <= MaxInlayId
                /\ hints' = MapInsert(hints, t.excerpt_id,
                                [ version |-> t.cache_version,
                                  buffer_version |-> t.buffer_version,
                                  hints |-> CommittedHints(entry, t.new_update) ])
                /\ version' = NextVersion(version)
                /\ next_inlay_id' = next_inlay_id + Len(t.new_update.add_to_cache)
                /\ visible' = ApplySplice(visible, t.new_update.remove_from_visible,
                                          SpliceToInsert(t.excerpt_id, t.new_update))
                /\ last' = [ Op("Commit") EXCEPT !.excerpts = {t.excerpt_id},
                                                  !.invalidate = t.invalidate,
                                                  !.applied = TRUE ]
    /\ tasks' = EndTask(tasks, t)
    /\ UNCHANGED << allowed_hint_kinds, update_tasks, buffer_version, pending,
                    settings >>

(***************************************************************************)
(* update_settings (lines 90-126).                                         *)
(***************************************************************************)

VisibleIn(excerpt_id) == { v \in visible : v.excerpt_id = excerpt_id }

\* The shown hints of every excerpt, in the orders the display map can hold them.
ShownOrders ==
    { f \in [ Excerpts -> UNION { SortedOrders(VisibleIn(e)) : e \in Excerpts } ] :
        \A e \in Excerpts : f[e] \in SortedOrders(VisibleIn(e)) }

\* new_allowed_hint_kinds_splice (lines 236-336), for the shown hints in the
\* order `shown`; is_some = FALSE stands for None.
new_allowed_hint_kinds_splice(shown, new_kinds) ==
    LET walk(e) == MergeWalk(e, shown[e], hints[e].hints, allowed_hint_kinds,
                             new_kinds, 1, 1, {}, {})
        to_remove ==
            UNION { walk(e).to_remove : e \in DOMAIN hints }
            \cup { v.id : v \in { w \in visible : w.excerpt_id \notin DOMAIN hints } }
        to_insert == UNION { walk(e).to_insert : e \in DOMAIN hints }
    IN  [ is_some |-> ~(to_remove = {} /\ to_insert = {}),
          to_remove |-> to_remove, to_insert |-> to_insert ]

\* The tasks' clones of the cache entries that clear() takes out of the map keep
\* the hints the entries held.
OrphanTask(t) ==
    IF t.cached = "live"
    THEN [ t EXCEPT !.cached = "orphan",
                    !.orphan_hints = hints[t.excerpt_id].hints ]
    ELSE t

\* The number of tasks of `from` that clear() turns into `image`.
RECURSIVE CopiesInto(_, _, _)
CopiesInto(ts, image, from) ==
    IF from = {} THEN 0
    ELSE LET t == CHOOSE x \in from : TRUE
         IN  (IF OrphanTask(t) = image THEN CopiesIn(t, ts) ELSE 0)
             + CopiesInto(ts, image, from \ {t})

Orphaned(ts) ==
    [ image \in { OrphanTask(t) : t \in BagToSet(ts) } |->
        CopiesInto(ts, image, BagToSet(ts)) ]

\* A splice that removes no inlay.
KeepingSplice(visible_hints) == [ to_remove |-> {}, to_insert |-> {} ]

\* The splice returned with clear() (lines 105-108).
ClearSplice(visible_hints) ==
    [ to_remove |-> { inlay.id : inlay \in visible_hints }, to_insert |-> {} ]

update_settings(inlay_hint_settings) ==
    LET new_allowed_hint_kinds == allowed_hint_types(inlay_hint_settings)
        this == [ Op("update_settings") EXCEPT
                    !.before_visible = visible,
                    !.before_parameter_hints =
                        settings.enabled /\ settings.show_parameter_hints ]
    IN  /\ settings' = inlay_hint_settings
        /\ last' = this
        /\ IF ~inlay_hint_settings.enabled
           THEN IF hints = EmptyMap
                THEN /\ allowed_hint_kinds' = new_allowed_hint_kinds
                     /\ UNCHANGED << hints, version, update_tasks, visible, tasks >>
                ELSE \* clear() (lines 338-343), then the splice of lines 105-108
                     /\ version < MaxVersion
                     /\ version' = NextVersion(version)
                     /\ update_tasks' = EmptyMap
                     /\ hints' = EmptyMap
                     /\ tasks' = AfterDrop(Orphaned(tasks), Excerpts)
                     /\ allowed_hint_kinds' = new_allowed_hint_kinds
                     /\ visible' = ApplySplice(visible,
                                               ClearSplice(visible).to_remove,
                                               ClearSplice(visible).to_insert)
           ELSE IF new_allowed_hint_kinds = allowed_hint_kinds
           THEN UNCHANGED << hints, allowed_hint_kinds, version, update_tasks,
                             visible, tasks >>
           ELSE \E shown \in ShownOrders :
                  LET new_splice ==
                          new_allowed_hint_kinds_splice(shown, new_allowed_hint_kinds)
                  IN  IF new_splice.is_some
                      THEN /\ version < MaxVersion
                           /\ version' = NextVersion(version)
                           /\ update_tasks' = EmptyMap
                           /\ tasks' = AfterDrop(tasks, Excerpts)
                           /\ allowed_hint_kinds' = new_allowed_hint_kinds
                           /\ visible' = ApplySplice(visible, new_splice.to_remove,
                                                     new_splice.to_insert)
                           /\ UNCHANGED hints
                      ELSE UNCHANGED << hints, allowed_hint_kinds, version,
                                        update_tasks, visible, tasks >>
        /\ UNCHANGED << next_inlay_id, buffer_version, pending >>

(***************************************************************************)
(* The buffer is edited: its version advances.                             *)
(***************************************************************************)
EditBuffer ==
    /\ buffer_version < MaxBufferVersion
    /\ buffer_version' = buffer_version + 1
    /\ last' = Op("EditBuffer")
    /\ UNCHANGED << hints, allowed_hint_kinds, version, update_tasks, next_inlay_id,
                    visible, pending, tasks, settings >>

\* The steps of the program, with the callers' and the hint source's inputs
\* drawn from `inputs`.
NextOver(inputs) ==
    \/ \E excerpts_to_query \in inputs.requests :
         \E invalidate \in inputs.strategies :
            /\ Len(pending) < inputs.max_pending
            /\ spawn_hints_update(excerpts_to_query, invalidate)
    \/ RunSpawned(inputs.max_tasks)
    \/ \E t \in BagToSet(tasks) : FetchFails(t)
    \/ \E t \in BagToSet(tasks) : \E new_hints \in inputs.results :
         FetchSucceeds(t, new_hints)
    \/ \E t \in BagToSet(tasks) : Commit(t)
    \/ \E inlay_hint_settings \in inputs.choices : update_settings(inlay_hint_settings)
    \/ EditBuffer

AllInputs ==
    [ requests |-> SUBSET Excerpts \ { {} }, strategies |-> Strategies,
      results |-> FetchResults, choices |-> SettingsChoices, max_tasks |-> MaxTasks,
      max_pending |-> MaxPending ]

Next == NextOver(AllInputs)

Spec == Init /\ [][Next]_vars

(***************************************************************************)
(* Racing tasks: one excerpt refreshed under every strategy, two tasks in  *)
(* flight, the hint source answering with no hint, with one hint or with   *)
(* two hints at one position, the feature switched on and off.             *)
(***************************************************************************)
RaceInputs ==
    [ requests |-> { {1} }, strategies |-> Strategies,
      results |-> { <<>>, << HintP >>, << HintA, HintB >> },
      choices |-> { SettingsOn, SettingsOff }, max_tasks |-> MaxTasks,
      max_pending |-> MaxPending - 1 ]

InitRace == Init /\ settings \in RaceInputs.choices

SpecRace == InitRace /\ [][NextOver(RaceInputs)]_vars

(***************************************************************************)
(* The same inputs with one task at a time: no two tasks race.             *)
(***************************************************************************)
SequentialInputs == [ RaceInputs EXCEPT !.max_tasks = MaxTasks - 1 ]

InitSequential == Init /\ settings \in SequentialInputs.choices

SpecSequential == InitSequential /\ [][NextOver(SequentialInputs)]_vars

(***************************************************************************)
(* Settings changes: one excerpt, one task at a time, the parameter hints  *)
(* and the feature switched on and off.                                    *)
(***************************************************************************)
SettingsInputs ==
    [ requests |-> { {1} }, strategies |-> Strategies,
      results |-> { << HintA >>, << HintP >>, << HintP, HintA >> },
      choices |-> { SettingsOn, SettingsNoParameter, SettingsOff },
      max_tasks |-> MaxTasks - 1,
      max_pending |-> MaxPending - 1 ]

InitSettings == Init /\ settings \in SettingsInputs.choices

SpecSettings == InitSettings /\ [][NextOver(SettingsInputs)]_vars

(***************************************************************************)
(* Scheduling: every set of excerpts requested under every strategy, one   *)
(* task at a time, the hint source answering with one hint in the span and *)
(* one past it.                                                            *)
(***************************************************************************)
SchedulerInputs ==
    [ requests |-> SUBSET Excerpts \ { {} }, strategies |-> Strategies,
      results |-> { << HintA, HintOut >> }, choices |-> { SettingsOn },
      max_tasks |-> MaxTasks - 1,
      max_pending |-> MaxPending - 1 ]

InitScheduler == Init /\ settings \in SchedulerInputs.choices

SpecScheduler == InitScheduler /\ [][NextOver(SchedulerInputs)]_vars

(***************************************************************************)
(* Several excerpts in one request: every set of excerpts requested under  *)
(* every strategy, a task per excerpt in flight, the hint source answering *)
(* with one hint.                                                          *)
(***************************************************************************)
RegionsInputs ==
    [ requests |-> SUBSET Excerpts \ { {} }, strategies |-> Strategies,
      results |-> { << HintA >> }, choices |-> { SettingsOn },
      max_tasks |-> MaxTasks,
      max_pending |-> MaxPending - 1 ]

InitRegions == Init /\ settings \in RegionsInputs.choices

SpecRegions == InitRegions /\ [][NextOver(RegionsInputs)]_vars

(***************************************************************************)
(* Every way the cache version moves: racing tasks, the parameter hints    *)
(* and the feature switched on and off, the hint source answering with no  *)
(* hint or with a Parameter hint.                                          *)
(***************************************************************************)
VersionInputs ==
    [ requests |-> { {1} }, strategies |-> Strategies,
      results |-> { <<>>, << HintP >> },
      choices |-> { SettingsOn, SettingsNoParameter, SettingsOff },
      max_tasks |-> MaxTasks,
      max_pending |-> MaxPending - 1 ]

InitVersion == Init /\ settings \in VersionInputs.choices

SpecVersion == InitVersion /\ [][NextOver(VersionInputs)]_vars

(***************************************************************************)
(* Requests that arrive before the spawned half of an earlier request has  *)
(* run: one excerpt, two requests waiting, two tasks in flight.            *)
(***************************************************************************)
PendingInputs ==
    [ requests |-> { {1} }, strategies |-> { "None", "All" },
      results |-> { << HintA >> }, choices |-> { SettingsOn, SettingsOff },
      max_tasks |-> MaxTasks, max_pending |-> MaxPending ]

InitPending == Init /\ settings \in PendingInputs.choices

SpecPending == InitPending /\ [][NextOver(PendingInputs)]_vars

(***************************************************************************)
(* The allowed kinds changed over hints that share a position: one excerpt,*)
(* one task at a time, the hint source answering with two Type hints at    *)
(* one position or with a Parameter hint, the parameter hints switched on  *)
(* and off.                                                                *)
(***************************************************************************)
ResyncInputs ==
    [ requests |-> { {1} }, strategies |-> Strategies,
      results |-> { << HintA, HintB >>, << HintP >> },
      choices |-> { SettingsOn, SettingsNoParameter },
      max_tasks |-> MaxTasks - 1, max_pending |-> MaxPending - 1 ]

InitResync == Init /\ settings \in ResyncInputs.choices

SpecResync == InitResync /\ [][NextOver(ResyncInputs)]_vars

(***************************************************************************)
(* Properties.                                                             *)
(***************************************************************************)

\* The step is the commit closure of the task t.
CommitStep(t) ==
    /\ t.stage = "commit"
    /\ last'.op = "Commit"
    /\ tasks' = EndTask(tasks, t)

CachedIds(map, excerpt_id) ==
    IF excerpt_id \in DOMAIN map
    THEN { map[excerpt_id].hints[i].id : i \in 1..Len(map[excerpt_id].hints) }
    ELSE {}

CachedEntries(map, excerpt_id) ==
    IF excerpt_id \in DOMAIN map THEN Range(map[excerpt_id].hints) ELSE {}

\* C1: when a task dispatched at version v1 commits for an excerpt whose cached
\* entry already holds the version v2 > v1 of a later dispatch, its update is
\* discarded: the cached hints, the visible hints and the cache version stay as
\* the later commit left them.
C1_StaleUpdateDiscarded ==
    [][ \A t \in BagToSet(tasks) :
          ( /\ CommitStep(t)
            /\ t.excerpt_id \in DOMAIN hints
            /\ t.cache_version < hints[t.excerpt_id].version )
          => ( /\ hints' = hints
               /\ visible' = visible
               /\ version' = version
               /\ next_inlay_id' = next_inlay_id ) ]_vars

\* A stale update was just discarded for an excerpt that holds hints.
C1_Witness ==
    /\ last.op = "Commit"
    /\ ~last.applied
    /\ \E e \in last.excerpts : e \in DOMAIN hints /\ hints[e].hints # <<>>

\* C2: the version of an excerpt's cached entry never decreases while the entry
\* exists, whatever is requested, committed or set.
C2_CacheVersionNeverDecreases ==
    [][ \A e \in DOMAIN hints \cap DOMAIN hints' :
          hints'[e].version >= hints[e].version ]_vars

\* An update of a later dispatch was just applied to an entry.
C2_Witness ==
    /\ last.op = "Commit"
    /\ last.applied
    /\ \E e \in last.excerpts : e \in DOMAIN hints /\ hints[e].version > 0

\* C3, as claimed: the cached hints of an excerpt are strictly ordered by
\* position, so that no two entries share a position.
C3_StrictlySorted ==
    \A e \in DOMAIN hints :
       \A i \in 1..Len(hints[e].hints) : \A j \in (i + 1)..Len(hints[e].hints) :
          hints[e].hints[i].hint.position < hints[e].hints[j].hint.position

\* C3, amended: the cached hints of an excerpt are in ascending order of
\* position; entries with different ids may share a position.
C3_Sorted ==
    \A e \in DOMAIN hints :
       \A i \in 1..Len(hints[e].hints) : \A j \in (i + 1)..Len(hints[e].hints) :
          hints[e].hints[i].hint.position <= hints[e].hints[j].hint.position

\* A commit just left hints that the sort had to reorder: a hint with a later
\* id stands before one with an earlier id.
C3_Witness ==
    /\ last.op = "Commit"
    /\ last.applied
    /\ \E e \in last.excerpts :
          /\ e \in DOMAIN hints
          /\ \E i \in 1..Len(hints[e].hints) : \E j \in (i + 1)..Len(hints[e].hints) :
                /\ hints[e].hints[i].hint.position < hints[e].hints[j].hint.position
                /\ hints[e].hints[i].id > hints[e].hints[j].id

\* C4, as claimed: a hint that is cached under an id and is fetched again,
\* value-equal, is cached under that id, and under no other, after the commit
\* of that fetch.
C4_IdentityPreserved ==
    [][ \A t \in BagToSet(tasks) :
          ( CommitStep(t) /\ last'.applied )
          => \A h \in t.fetched :
                LET ids_of(map) ==
                        { c.id : c \in { x \in CachedEntries(map, t.excerpt_id) :
                                           x.hint = h } }
                IN  ids_of(hints) # {} => ids_of(hints') = ids_of(hints) ]_vars

\* The step is the fetch and diff of the task t, which left it as t2 to commit.
DiffStep(t, t2) ==
    /\ t.stage = "fetch"
    /\ t2.stage = "commit"
    /\ last'.op = "FetchSucceeds"
    /\ tasks' = ReplaceTask(tasks, t, t2)

\* C5, as claimed: a fetch that returns exactly the hints cached for the
\* excerpt leaves nothing to commit, under every strategy.
C5_RefetchIsIdempotent ==
    [][ \A t \in BagToSet(tasks) : \A t2 \in BagToSet(tasks') :
          DiffStep(t, t2)
          => ~( /\ t.cached # "none"
                /\ t2.fetched = { c.hint : c \in Range(CachedHintsOf(t)) } ) ]_vars

\* C6, as claimed: with the feature enabled, switching the parameter hints off
\* and then on again leaves the visible hints as they were before, and neither
\* call starts a fetch.
C6_ParameterToggleRoundTrip ==
    [][ ( /\ last.op = "update_settings"
          /\ last.before_parameter_hints
          /\ settings = SettingsNoParameter
          /\ last'.op = "update_settings"
          /\ settings' = SettingsOn )
        => /\ visible' = last.before_visible
           /\ pending' = pending
           /\ BagCardinality(tasks') = BagCardinality(tasks) ]_vars

\* C7, as claimed: the commit of a fetch under All or OnConflict keeps the
\* cached hints the fetch returned again, under their ids, removes the other
\* cached hints from the cache and the other visible hints of the excerpt from
\* the visible set, and caches every other fetched hint under a fresh id.
C7_InvalidatingCommit ==
    [][ \A t \in BagToSet(tasks) :
          ( CommitStep(t) /\ last'.applied /\ IsInvalidating(t.invalidate) )
          => LET before == CachedEntries(hints, t.excerpt_id)
                 after == CachedEntries(hints', t.excerpt_id)
                 reconfirmed(c) == c.hint \in t.fetched
             IN  /\ \A c \in before : reconfirmed(c) => c \in after
                 /\ \A c \in before :
                       ~reconfirmed(c) => c.id \notin { a.id : a \in after }
                 /\ \A v \in VisibleIn(t.excerpt_id) :
                       ~(\E c \in before : c.id = v.id /\ reconfirmed(c))
                       => v \notin visible'
                 /\ \A h \in t.fetched :
                       ~(\E c \in before : c.hint = h)
                       => \E a \in after : a.hint = h /\ a.id >= next_inlay_id ]_vars

\* C8: the update of a fetch under None removes nothing, and its commit takes
\* no id out of the excerpt's cached hints and no inlay out of the visible set.
C8_NoneIsAdditive ==
    [][ \A t \in BagToSet(tasks) :
          ( CommitStep(t) /\ t.invalidate = "None" )
          => /\ t.new_update.remove_from_cache = {}
             /\ t.new_update.remove_from_visible = {}
             /\ CachedIds(hints, t.excerpt_id) \subseteq CachedIds(hints', t.excerpt_id)
             /\ visible \subseteq visible' ]_vars

\* A fetch under None was just committed next to hints it did not return: the
\* excerpt holds and shows the hint at position 2 and a hint at position 1,
\* which no one answer of the hint source contains.
C8_Witness ==
    /\ last.op = "Commit"
    /\ last.applied
    /\ last.invalidate = "None"
    /\ \E e \in last.excerpts :
          /\ { HintP, HintA } \subseteq { c.hint : c \in CachedEntries(hints, e) }
          /\ \A c \in CachedEntries(hints, e) : \E v \in visible : v.id = c.id

\* The step is the failure of the fetch of the task t.
FetchFailureStep(t) ==
    /\ t.stage = "fetch"
    /\ last'.op = "FetchFails"
    /\ tasks' = EndTask(tasks, t)

\* C9, as claimed: a failed fetch changes neither the cache nor the visible
\* hints, and once the excerpt has no other task on its way, a refresh of the
\* excerpt gets past the scheduler under every strategy.
C9_FailedFetchLeavesExcerptEligible ==
    [][ \A t \in BagToSet(tasks) :
          FetchFailureStep(t)
          => /\ hints' = hints
             /\ version' = version
             /\ visible' = visible
             /\ ( /\ pending' = <<>>
                  /\ \A other \in BagToSet(tasks') : other.excerpt_id # t.excerpt_id )
                => \A invalidate \in Strategies :
                      t.excerpt_id \in
                          ScheduledQuery({t.excerpt_id}, invalidate)'.excerpts_to_query
       ]_vars

\* C10: a requested excerpt gets past the scheduler exactly when no task is
\* recorded for it, or the recorded task's version is below the cache version,
\* or it equals the cache version and the strategy is All or OnConflict.
C10_SchedulerRule ==
    [][ last'.op = "spawn_hints_update"
        => /\ pending' # <<>>
           /\ \A e \in last'.excerpts :
                 e \in pending'[Len(pending')].excerpts_to_query
                 <=> \/ e \notin DOMAIN update_tasks
                     \/ update_tasks[e].version < version
                     \/ /\ update_tasks[e].version = version
                        /\ last'.invalidate \in {"All", "OnConflict"} ]_vars

\* A request under None was just scheduled: an excerpt whose task is of the
\* current version was left out, the other excerpt got through.
C10_Witness ==
    /\ last.op = "spawn_hints_update"
    /\ last.invalidate = "None"
    /\ last.proceed # {}
    /\ \E e \in last.excerpts \ last.proceed :
          e \in DOMAIN update_tasks /\ update_tasks[e].version = version

\* The step is the spawned half of a request: it has started the tasks of
\* last'.proceed.
SpawnedStep == last'.op = "RunSpawned"

\* C11: for an excerpt with a cache entry, the spawned half of a request starts
\* no task when the buffer has not changed since the entry's buffer version and
\* the strategy is not All, and none when the entry's buffer version is ahead
\* of the buffer; under All, with the buffer unchanged, it starts one for an
\* excerpt whose range it finds.
C11_RevisionCheck ==
    [][ SpawnedStep
        => \A e \in last'.excerpts \cap DOMAIN hints :
              LET cached == hints[e].buffer_version
                  seen == buffer_version
              IN  /\ ( ~(seen > cached) /\ last'.invalidate # "All" )
                     => e \notin last'.proceed
                  /\ cached > seen => e \notin last'.proceed
                  /\ ( last'.invalidate = "All" /\ seen = cached
                       /\ e \in last'.resolvable )
                     => e \in last'.proceed ]_vars

\* A request under OnConflict has just been run for an excerpt whose range was
\* found and whose entry is of the buffer's version: no task was started.
C11_Witness ==
    /\ last.op = "RunSpawned"
    /\ last.invalidate = "OnConflict"
    /\ \E e \in (last.excerpts \cap last.resolvable) \cap DOMAIN hints :
          /\ hints[e].buffer_version = buffer_version
          /\ e \notin last.proceed
          /\ \A t \in BagToSet(tasks) : t.excerpt_id # e

\* C12, as claimed: every excerpt of a request that got past the scheduler,
\* whose range is found and whose own cache entry is not current, gets a task,
\* whatever happens to the other excerpts of the request.
C12_RegionsIndependent ==
    [][ SpawnedStep
        => \A e \in last'.excerpts \cap last'.resolvable :
              LET current ==
                      /\ e \in DOMAIN hints
                      /\ \/ hints[e].buffer_version > buffer_version
                         \/ /\ ~(buffer_version > hints[e].buffer_version)
                            /\ last'.invalidate # "All"
              IN  ~current => e \in last'.proceed ]_vars

\* The step is a call of update_settings.
SettingsStep == last'.op = "update_settings"

\* C13: update_settings with the feature disabled leaves no excerpt in the
\* cache and no inlay hint visible (every visible hint is removed, none is
\* inserted), whatever was cached and visible before.
C13_DisableClears ==
    [][ ( SettingsStep /\ ~settings'.enabled )
        => /\ hints' = EmptyMap
           /\ visible' = {} ]_vars

\* The feature has just been disabled over a cache that held an excerpt and a
\* visible hint: both are gone.
C13_Witness ==
    /\ last.op = "update_settings"
    /\ ~settings.enabled
    /\ last.before_visible # {}
    /\ hints = EmptyMap
    /\ visible = {}

\* C14: a commit caches every hint of add_to_cache under a new id, and of
\* these new entries exactly those of a kind allowed at the commit become
\* visible: a new hint of another kind is cached and not shown.
C14_AllowedKindsAtCommit ==
    [][ \A t \in BagToSet(tasks) :
          ( CommitStep(t) /\ last'.applied )
          => LET added == { c \in CachedEntries(hints', t.excerpt_id) :
                              c.id >= next_inlay_id }
             IN  /\ Cardinality(added) = Len(t.new_update.add_to_cache)
                 /\ { c.hint : c \in added } = Range(t.new_update.add_to_cache)
                 /\ \A c \in added :
                       (\E v \in visible' : v.id = c.id)
                       <=> c.hint.kind \in allowed_hint_kinds ]_vars

\* A commit has just cached a Parameter hint while Parameter was not allowed:
\* the hint has an id and is not visible.
C14_Witness ==
    /\ last.op = "Commit"
    /\ last.applied
    /\ "Parameter" \notin allowed_hint_kinds
    /\ \E e \in last.excerpts : \E c \in CachedEntries(hints, e) :
          /\ c.hint = HintP
          /\ c.id = next_inlay_id - 1
          /\ \A v \in visible : v.id # c.id

\* Every entry of the cache, with the excerpt that holds it and its place there.
AllCachedEntries(map) ==
    UNION { { [ excerpt_id |-> e, index |-> i, id |-> map[e].hints[i].id ] :
                i \in 1..Len(map[e].hints) } : e \in DOMAIN map }

\* C15: ids are given once: every id a step adds to the cache is at least the
\* counter before the step, hence above every id given before, the counter
\* never decreases, and no two entries of the cache, in one excerpt or in two,
\* hold the same id.
C15_IdsNeverReused ==
    [][ /\ next_inlay_id' >= next_inlay_id
        /\ \A c \in AllCachedEntries(hints') :
              /\ c.id < next_inlay_id'
              /\ \/ c.id >= next_inlay_id
                 \/ \E b \in AllCachedEntries(hints) :
                       b.excerpt_id = c.excerpt_id /\ b.id = c.id
              /\ \A d \in AllCachedEntries(hints') : d # c => d.id # c.id ]_vars

\* A commit has just cached a hint under a later id after the hint of id 0 had
\* left the cache.
C15_Witness ==
    /\ last.op = "Commit"
    /\ last.applied
    /\ next_inlay_id > 1
    /\ \A c \in AllCachedEntries(hints) : c.id # 0
    /\ \E c \in AllCachedEntries(hints) : c.id = next_inlay_id - 1

\* C16: the cache version never decreases; every step that changes the cache
\* or the visible hints raises it by one, as does every commit that passes the
\* version guard, every clear() and every change of the allowed kinds that
\* changes the visible hints; a commit that the version guard discards leaves
\* the version, the cache and the visible hints as they were.
C16_VersionCountsMutations ==
    [][ /\ version' >= version
        /\ ( hints' # hints \/ visible' # visible ) => version' = version + 1
        /\ \A t \in BagToSet(tasks) :
              CommitStep(t)
              => IF last'.applied
                 THEN version' = version + 1
                 ELSE version' = version /\ hints' = hints /\ visible' = visible
        /\ ( SettingsStep /\ ~settings'.enabled /\ hints # EmptyMap )
           => version' = version + 1 ]_vars

\* The parameter hints have just been switched off with the feature enabled:
\* a visible hint was removed and the version has moved past the two steps
\* that cached and hid it.
C16_Witness ==
    /\ last.op = "update_settings"
    /\ settings.enabled
    /\ visible # last.before_visible
    /\ hints # EmptyMap
    /\ version >= 2

\* C17, as claimed: requests under None made for an excerpt at one cache
\* version start at most one task for it: when the spawned halves of two such
\* requests run one after the other, the second starts no task for an excerpt
\* the first has started one for.
C17_OneFetchPerVersion ==
    [][ ( /\ last.op = "RunSpawned" /\ last.invalidate = "None"
          /\ SpawnedStep /\ last'.invalidate = "None"
          /\ Head(pending).cache_version = version
          /\ \A e \in last.proceed : update_tasks[e].version = version )
        => last'.proceed \cap last.proceed = {} ]_vars

\* The step is the call of spawn_hints_update, up to cx.spawn.
RequestStep == last'.op = "spawn_hints_update"

\* C18: a request under All or OnConflict leaves no recorded task for an
\* excerpt outside the requested set; a request under None leaves the recorded
\* tasks of the excerpts outside the requested set as they were.
C18_BookkeepingOutsideRequest ==
    [][ RequestStep
        => LET outside == Excerpts \ last'.excerpts
           IN  IF last'.invalidate \in {"All", "OnConflict"}
               THEN \A e \in outside : e \notin DOMAIN update_tasks'
               ELSE \A e \in outside :
                       /\ e \in DOMAIN update_tasks' <=> e \in DOMAIN update_tasks
                       /\ e \in DOMAIN update_tasks
                          => update_tasks'[e] = update_tasks[e] ]_vars

\* A request under OnConflict has just been made without an excerpt that has a
\* cache entry, so had a recorded task: no task is recorded for it any more.
C18_Witness ==
    /\ last.op = "spawn_hints_update"
    /\ last.invalidate = "OnConflict"
    /\ \E e \in Excerpts \ last.excerpts :
          e \in DOMAIN hints /\ e \notin DOMAIN update_tasks

\* C19, as claimed: update_settings with the feature enabled and kinds other
\* than the allowed ones leaves the cache as it was and leaves visible, in every
\* cached excerpt, exactly the cached hints of the new kinds, under their ids.
C19_ResyncShowsAllowedKinds ==
    [][ ( /\ SettingsStep
          /\ settings'.enabled
          /\ allowed_hint_types(settings') # allowed_hint_kinds )
        => /\ hints' = hints
           /\ \A e \in DOMAIN hints :
                 { v.id : v \in { w \in visible' : w.excerpt_id = e } }
                 = { c.id : c \in { x \in CachedEntries(hints, e) :
                                      x.hint.kind \in allowed_hint_types(settings') } }
       ]_vars

\* C20, as claimed: every visible inlay hint is cached, under its id, in the
\* entry of its excerpt.
C20_VisibleIsCached ==
    \A v \in visible :
       /\ v.excerpt_id \in DOMAIN hints
       /\ v.id \in CachedIds(hints, v.excerpt_id)

\* C21, as claimed: after every call of update_settings the allowed kinds are
\* the kinds of the settings given to the call.
C21_AllowedKindsFollowSettings ==
    [][ SettingsStep => allowed_hint_kinds' = allowed_hint_types(settings') ]_vars

\* C22, as claimed: the buffer version of an excerpt's cache entry never moves
\* backwards while the entry exists.
C22_BufferVersionNeverDecreases ==
    [][ \A e \in DOMAIN hints \cap DOMAIN hints' :
          hints'[e].buffer_version >= hints[e].buffer_version ]_vars

\* C23: the version recorded for an excerpt's task never exceeds the cache
\* version, so the scheduler never finds a recorded task ahead of a request.
C23_TaskVersionWithinCacheVersion ==
    \A e \in DOMAIN update_tasks : update_tasks[e].version <= version

\* The spawned half of a request made after the cache version had moved has
\* just recorded a task: its version is the cache version itself.
C23_Witness ==
    /\ last.op = "RunSpawned"
    /\ version >= 1
    /\ \E e \in last.proceed :
          e \in DOMAIN update_tasks /\ update_tasks[e].version = version

====
